---- MODULE Spec2Model ----
(***************************************************************************)
(* Model of remove_system_health.py: a single pass over the lines of       *)
(* shared/schema.ts that drops named declaration blocks and type aliases,  *)
(* renames one comment header, and writes the result back.                 *)
(*                                                                         *)
(* A line is a sequence of tokens ending in the line terminator; the       *)
(* Python test `pattern in line` is contiguous-subsequence search.         *)
(***************************************************************************)
EXTENDS Integers, Sequences, FiniteSets

\* Longest input file explored, in lines.
MaxLen == 4

NL == "\n"

\* `pat in line`
Contains(pat, line) ==
    \E k \in 1..(Len(line) - Len(pat) + 1) :
        SubSeq(line, k, k + Len(pat) - 1) = pat

DupMarker == <<"complaints = pgTable">>

skip_sections == <<
    << <<"processImpactLevelEnum">>, <<"[">>, <<");">> >>,
    << <<"processes = pgTable">>, <<"{">>, <<"}", ");">> >>,
    << <<"metrics = pgTable">>, <<"{">>, <<"}", ");">> >>,
    << <<"metricValues = pgTable">>, <<"{">>, <<"}", ");">> >>,
    << <<"riskScores = pgTable">>, <<"{">>, <<"}", ");">> >>,
    << <<"alertRules = pgTable">>, <<"{">>, <<"}", ");">> >>,
    << <<"alerts = pgTable">>, <<"{">>, <<"}", ");">> >>,
    << <<"alertConfigurations = pgTable">>, <<"{">>, <<"}", ");">> >>,
    << <<"alertHistory = pgTable">>, <<"{">>, <<"}", ");">> >>,
    << <<"healthScoreHistory = pgTable">>, <<"{">>, <<"}", ");">> >>,
    << <<"insertProcessSchema =">>, <<"createInsertSchema">>, <<"}", ");">> >>,
    << <<"insertMetricSchema =">>, <<"createInsertSchema">>, <<"}", ");">> >>,
    << <<"insertMetricValueSchema =">>, <<"createInsertSchema">>, <<"}", ");">> >>,
    << <<"insertRiskScoreSchema =">>, <<"createInsertSchema">>, <<"}", ");">> >>,
    << <<"insertAlertRuleSchema =">>, <<"createInsertSchema">>, <<"}", ");">> >>,
    << <<"insertAlertSchema =">>, <<"createInsertSchema">>, <<"}", ");">> >>,
    << <<"insertAlertConfigurationSchema =">>, <<"createInsertSchema">>, <<"}", ");">> >>,
    << <<"insertHealthScoreHistorySchema =">>, <<"createInsertSchema">>, <<"}", ");">> >>
>>

type_removals == <<
    <<"export type Process =">>,
    <<"export type InsertProcess =">>,
    <<"export type Metric =">>,
    <<"export type InsertMetric =">>,
    <<"export type MetricValue =">>,
    <<"export type InsertMetricValue =">>,
    <<"export type RiskScore =">>,
    <<"export type InsertRiskScore =">>,
    <<"export type AlertRule =">>,
    <<"export type InsertAlertRule =">>,
    <<"export type Alert =">>,
    <<"export type InsertAlert =">>,
    <<"export type AlertConfiguration =">>,
    <<"export type InsertAlertConfiguration =">>,
    <<"export type AlertHistoryEntry =">>,
    <<"export type HealthScoreHistoryEntry =">>,
    <<"export type InsertHealthScoreHistoryEntry =">>
>>

relations_sections == <<
    << <<"// Relations for Risk-Based Analysis & Process Monitoring Module">>,
       <<"// Relations for Customer Feedback & Complaints">> >>
>>

HeaderOld == relations_sections[1][1]
HeaderNew == relations_sections[1][2] \o <<NL>>

SuccessMessage == "System health components removed from schema.ts"

\* current_section_end = None
None == <<>>

\* Lines a schema file is built from in the explored inputs.
LineHeader   == HeaderOld \o <<NL>>
LineDup      == <<"complaints = pgTable", NL>>
LineType     == <<"export type Alert =", NL>>
LineOpenEnum == <<"processImpactLevelEnum", "[", NL>>
LineClose    == <<"}", ");", NL>>
LineCloseEnum == <<");", NL>>
LineCross    == <<"processes = pgTable", "[", NL>>
LineOneLiner == <<"metrics = pgTable", "{", "}", ");", NL>>
LineDupType  == <<"export type Metric =", "complaints = pgTable", NL>>

Vocabulary ==
    { LineHeader, LineDup, LineType, LineOpenEnum, LineClose,
      LineCloseEnum, LineCross, LineOneLiner, LineDupType }

\* Inputs for the block-skip machine: a line that matches two skip rules with
\* different close substrings takes the place of the marker-and-type line.
LineTwoRules == <<"processImpactLevelEnum", "[", "metrics = pgTable", "{", NL>>

VocabularyBlocks == (Vocabulary \ { LineDupType }) \cup { LineTwoRules }

RECURSIVE SeqsUpTo(_, _)
SeqsUpTo(S, n) ==
    IF n = 0 THEN { <<>> }
    ELSE LET shorter == SeqsUpTo(S, n - 1)
         IN  shorter \cup { Append(q, e) : q \in { r \in shorter : Len(r) = n - 1 }, e \in S }

Files == SeqsUpTo(Vocabulary, MaxLen)

FilesBlocks == SeqsUpTo(VocabularyBlocks, MaxLen)

VARIABLES
    file,                   \* contents of shared/schema.ts on disk
    orig,                   \* contents of the file when the run started
    stdout,                 \* messages printed
    pc,                     \* position of the run
    lines, fixed_lines, skip_next_complaints,
    i, skipping, current_section_end,
    log                     \* one record per loop iteration

vars == << file, orig, stdout, pc, lines, fixed_lines, skip_next_complaints,
           i, skipping, current_section_end, log >>

loopvars == << lines, fixed_lines, skip_next_complaints, i, skipping,
               current_section_end, log >>

----------------------------------------------------------------------------
\* The loop body, lines 65-112, on the loop state
\* s = [fixed_lines, skip_next_complaints, i, skipping, current_section_end]
\* plus `taken`, the branches the iteration went through.

Take(s, name) == [s EXCEPT !.taken = Append(@, name)]

\* variant: dropping the duplicate releases the latch
DupDrop_ResetsLatch(s, line) ==
    Take([s EXCEPT !.skip_next_complaints = FALSE, !.i = @ + 1], "dup_drop")

\* lines 69-71
DupDrop(s, line) == Take([s EXCEPT !.i = @ + 1], "dup_drop")

\* lines 72-76
DupKeep(s, line) ==
    Take([s EXCEPT !.skip_next_complaints = TRUE,
                   !.fixed_lines = Append(@, line),
                   !.i = @ + 1], "dup_keep")

\* lines 79-83: the `continue` belongs to the for loop, so control goes on to
\* the next pair and then falls out of the for loop.
RECURSIVE ReplaceHeaders(_, _, _)
ReplaceHeaders(s, line, k) ==
    IF k > Len(relations_sections) THEN s
    ELSE IF Contains(relations_sections[k][1], line)
         THEN ReplaceHeaders(
                  Take([s EXCEPT !.fixed_lines = Append(@, relations_sections[k][2] \o <<NL>>),
                                 !.i = @ + 1], "header"),
                  line, k + 1)
         ELSE ReplaceHeaders(s, line, k + 1)

\* variant: the scan stops after the first pattern
SkipType_FirstOnly(line) == Contains(type_removals[1], line)

\* lines 86-90
SkipType(line) ==
    \E k \in 1..Len(type_removals) : Contains(type_removals[k], line)

\* variant: the type-removal branch forgets to advance the cursor
TypeDrop_NoAdvance(s, line) == Take(s, "type_drop")

\* lines 92-94
TypeDrop(s, line) == Take([s EXCEPT !.i = @ + 1], "type_drop")

\* variant: marker or block-open substring is enough
SectionMatches_Or(rule, line) == Contains(rule[1], line) \/ Contains(rule[2], line)

\* line 99
SectionMatches(rule, line) == Contains(rule[1], line) /\ Contains(rule[2], line)

\* variant: no break, the last matching rule wins
FirstSection_Last(line) ==
    IF \E j \in 1..Len(skip_sections) : SectionMatches(skip_sections[j], line)
    THEN CHOOSE j \in 1..Len(skip_sections) :
            /\ SectionMatches(skip_sections[j], line)
            /\ \A m \in (j + 1)..Len(skip_sections) : ~SectionMatches(skip_sections[m], line)
    ELSE 0

\* lines 98-103: the first matching rule in list order, 0 when none matches
FirstSection(line) ==
    IF \E j \in 1..Len(skip_sections) : SectionMatches(skip_sections[j], line)
    THEN CHOOSE j \in 1..Len(skip_sections) :
            /\ SectionMatches(skip_sections[j], line)
            /\ \A m \in 1..(j - 1) : ~SectionMatches(skip_sections[m], line)
    ELSE 0

\* variant: an opening line that holds its own close substring is taken as a
\* complete declaration and the block is not entered
EnterBlock_TestsClose(s, line) ==
    IF Contains(skip_sections[FirstSection(line)][3], line)
    THEN Take([s EXCEPT !.i = @ + 1], "enter_block")
    ELSE Take([s EXCEPT !.skipping = TRUE,
                        !.current_section_end = skip_sections[FirstSection(line)][3],
                        !.i = @ + 1], "enter_block")

\* lines 100-103
EnterBlock(s, line) ==
    Take([s EXCEPT !.skipping = TRUE,
                   !.current_section_end = skip_sections[FirstSection(line)][3],
                   !.i = @ + 1], "enter_block")

\* variant: the kept line is put in front of the output
KeepLine_Prepends(s, line) ==
    Take([s EXCEPT !.fixed_lines = <<line>> \o @, !.i = @ + 1], "keep")

\* lines 105-107
KeepLine(s, line) ==
    Take([s EXCEPT !.fixed_lines = Append(@, line), !.i = @ + 1], "keep")

\* variant: a line inside a block that is not the closing line is kept
InBlock_Appends(s, line) ==
    IF Contains(s.current_section_end, line)
    THEN Take([s EXCEPT !.skipping = FALSE, !.current_section_end = None,
                        !.i = @ + 1], "exit_block")
    ELSE Take([s EXCEPT !.fixed_lines = Append(@, line), !.i = @ + 1], "in_block")

\* variant: the close substring of any rule ends the block
InBlock_AnyClose(s, line) ==
    IF \E j \in 1..Len(skip_sections) : Contains(skip_sections[j][3], line)
    THEN Take([s EXCEPT !.skipping = FALSE, !.current_section_end = None,
                        !.i = @ + 1], "exit_block")
    ELSE Take([s EXCEPT !.i = @ + 1], "in_block")

\* variant: leaving the block does not clear the recorded close substring
InBlock_KeepsEnd(s, line) ==
    IF Contains(s.current_section_end, line)
    THEN Take([s EXCEPT !.skipping = FALSE, !.i = @ + 1], "exit_block")
    ELSE Take([s EXCEPT !.i = @ + 1], "in_block")

\* lines 108-112
InBlock(s, line) ==
    IF Contains(s.current_section_end, line)
    THEN Take([s EXCEPT !.skipping = FALSE, !.current_section_end = None,
                        !.i = @ + 1], "exit_block")
    ELSE Take([s EXCEPT !.i = @ + 1], "in_block")

\* lines 96-112
SectionRemovals(s, line) ==
    IF ~s.skipping
    THEN IF FirstSection(line) # 0 THEN EnterBlock(s, line) ELSE KeepLine(s, line)
    ELSE InBlock(s, line)

\* lines 66-112
LoopBody(s, line) ==
    IF Contains(DupMarker, line) /\ s.skip_next_complaints THEN DupDrop(s, line)
    ELSE IF Contains(DupMarker, line) THEN DupKeep(s, line)
    ELSE LET h == ReplaceHeaders(s, line, 1)
         IN  IF SkipType(line) THEN TypeDrop(h, line)
             ELSE SectionRemovals(h, line)

\* lines 9-10 and 62-64: the loop state before the first iteration
InitialLoopState ==
    [fixed_lines |-> <<>>, skip_next_complaints |-> FALSE, i |-> 0,
     skipping |-> FALSE, current_section_end |-> None, taken |-> <<>>]

\* lines 65-112: the while loop run to its end on the lines ls
RECURSIVE RunLoop(_, _)
RunLoop(s, ls) ==
    IF s.i < Len(ls)
    THEN RunLoop(LoopBody([s EXCEPT !.taken = <<>>], ls[s.i + 1]), ls)
    ELSE s

\* lines 9-112: the lines a run writes for a file holding ls
FilterLines(ls) == RunLoop(InitialLoopState, ls).fixed_lines

----------------------------------------------------------------------------
Init ==
    /\ file \in Files
    /\ orig = file
    /\ stdout = <<>>
    /\ pc = "open_read"
    /\ lines = <<>>
    /\ fixed_lines = <<>>
    /\ skip_next_complaints = FALSE
    /\ i = 0
    /\ skipping = FALSE
    /\ current_section_end = None
    /\ log = <<>>

InitBlocks ==
    /\ file \in FilesBlocks
    /\ orig = file
    /\ stdout = <<>>
    /\ pc = "open_read"
    /\ lines = <<>>
    /\ fixed_lines = <<>>
    /\ skip_next_complaints = FALSE
    /\ i = 0
    /\ skipping = FALSE
    /\ current_section_end = None
    /\ log = <<>>

\* line 5: open(..., 'r') raises
OpenReadFault ==
    /\ pc = "open_read"
    /\ pc' = "fault_open_read"
    /\ UNCHANGED << file, orig, stdout, loopvars >>

\* lines 5-64
ReadLines ==
    /\ pc = "open_read"
    /\ lines' = file
    /\ fixed_lines' = <<>>
    /\ skip_next_complaints' = FALSE
    /\ i' = 0
    /\ skipping' = FALSE
    /\ current_section_end' = None
    /\ pc' = "loop"
    /\ UNCHANGED << file, orig, stdout, log >>

\* lines 65-112: one iteration of the while loop
ProcessLine ==
    /\ pc = "loop"
    /\ i < Len(lines)
    /\ LET line == lines[i + 1]
           s == [fixed_lines |-> fixed_lines,
                 skip_next_complaints |-> skip_next_complaints,
                 i |-> i, skipping |-> skipping,
                 current_section_end |-> current_section_end,
                 taken |-> <<>>]
       IN  \E t \in { LoopBody(s, line) } :
           /\ fixed_lines' = t.fixed_lines
           /\ skip_next_complaints' = t.skip_next_complaints
           /\ i' = t.i
           /\ skipping' = t.skipping
           /\ current_section_end' = t.current_section_end
           /\ log' = Append(log, [at |-> i + 1, taken |-> t.taken,
                                  before |-> Len(fixed_lines),
                                  after |-> Len(t.fixed_lines),
                                  skipping |-> t.skipping,
                                  end |-> t.current_section_end])
    /\ UNCHANGED << file, orig, stdout, pc, lines >>

\* line 115: open(..., 'w') raises, nothing truncated
OpenWriteFault ==
    /\ pc = "loop"
    /\ i >= Len(lines)
    /\ pc' = "fault_open_write"
    /\ UNCHANGED << file, orig, stdout, loopvars >>

\* variant: the file is opened for writing while the loop is still running
OpenWrite_Early ==
    /\ pc = "loop"
    /\ file' = <<>>
    /\ pc' = "writelines"
    /\ UNCHANGED << orig, stdout, loopvars >>

\* line 115: open(..., 'w') truncates the file
OpenWrite ==
    /\ pc = "loop"
    /\ i >= Len(lines)
    /\ file' = <<>>
    /\ pc' = "writelines"
    /\ UNCHANGED << orig, stdout, loopvars >>

\* line 116, and the close at the end of the with block
WriteLines ==
    /\ pc = "writelines"
    /\ file' = fixed_lines
    /\ pc' = "print"
    /\ UNCHANGED << orig, stdout, loopvars >>

\* line 116 raises after some part of the output reached the disk
WriteLinesFault ==
    /\ pc = "writelines"
    /\ \E n \in 0..Len(fixed_lines) : file' = SubSeq(fixed_lines, 1, n)
    /\ pc' = "fault_writelines"
    /\ UNCHANGED << orig, stdout, loopvars >>

\* line 118
PrintSuccess ==
    /\ pc = "print"
    /\ stdout' = Append(stdout, SuccessMessage)
    /\ pc' = "done"
    /\ UNCHANGED << file, orig, loopvars >>

Next ==
    \/ OpenReadFault
    \/ ReadLines
    \/ ProcessLine
    \/ OpenWriteFault
    \/ OpenWrite
    \/ WriteLines
    \/ WriteLinesFault
    \/ PrintSuccess

Spec == Init /\ [][Next]_vars

SpecBlocks == InitBlocks /\ [][Next]_vars

----------------------------------------------------------------------------
Faults == {"fault_open_read", "fault_open_write", "fault_writelines"}

TypeOK ==
    /\ pc \in {"open_read", "loop", "writelines", "print", "done"} \cup Faults
    /\ i \in 0..(Len(lines) + 1)
    /\ skipping \in BOOLEAN
    /\ skip_next_complaints \in BOOLEAN

----------------------------------------------------------------------------
\* Reading the log.

Min(a, b) == IF a < b THEN a ELSE b

\* number of input lines the cursor has passed
Consumed == Min(i, Len(lines))

\* the while loop has ended
PassDone == pc # "open_read" /\ pc # "fault_open_read" /\ i >= Len(lines)

\* input positions that were bound to `line` by some iteration
Examined == { log[k].at : k \in DOMAIN log }

\* output positions appended by the iteration that examined input line n
OutOf(n) ==
    { p \in 1..Len(fixed_lines) :
        \E k \in DOMAIN log : log[k].at = n /\ log[k].before < p /\ p <= log[k].after }

\* output positions where input line n stands verbatim
KeptOf(n) == { p \in OutOf(n) : fixed_lines[p] = lines[n] }

Took(k, name) == \E j \in DOMAIN log[k].taken : log[k].taken[j] = name

\* the line contains one of the type-removal patterns
HasTypePattern(line) ==
    \E k \in DOMAIN type_removals : Contains(type_removals[k], line)

\* the line contains the marker and the block-open substring of one skip rule
OpensSection(line) ==
    \E j \in DOMAIN skip_sections :
        Contains(skip_sections[j][1], line) /\ Contains(skip_sections[j][2], line)

\* the line is subject to one of the rules that precede the block-skip machine
Preempted(line) ==
    Contains(DupMarker, line) \/ Contains(HeaderOld, line) \/ HasTypePattern(line)

\* the line is subject to no rule at all
NoRule(line) == ~Preempted(line) /\ ~OpensSection(line)

\* positions after o whose line contains the close substring c
ClosesAfter(o, c) == { n \in (o + 1)..Len(lines) : Contains(c, lines[n]) }

FirstCloseAfter(o, c) ==
    CHOOSE n \in ClosesAfter(o, c) : \A m \in ClosesAfter(o, c) : n <= m

RECURSIVE IsSubseq(_, _)
IsSubseq(a, b) ==
    IF a = <<>> THEN TRUE
    ELSE IF b = <<>> THEN FALSE
    ELSE IF Head(a) = Head(b) THEN IsSubseq(Tail(a), Tail(b))
    ELSE IsSubseq(a, Tail(b))

NotHeaderNew(l) == l # HeaderNew

----------------------------------------------------------------------------
\* C1: every header line that the cursor has passed contributes exactly one
\* output line, the replacement text, and is not itself in the output.
C1_HeaderReplacedOneForOne ==
    \A n \in 1..Consumed :
        Contains(HeaderOld, lines[n]) =>
            /\ \E p \in 1..Len(fixed_lines) : OutOf(n) = {p} /\ fixed_lines[p] = HeaderNew
            /\ KeptOf(n) = {}

\* C2: the line right after a header line is examined by the loop like any
\* other line, not passed over.
C2_LineAfterHeaderExamined ==
    \A n \in 2..Consumed :
        (n - 1 \in Examined /\ Contains(HeaderOld, lines[n - 1])) => n \in Examined

\* C3: when the pass is over, the first line with the duplicate-guard marker
\* is in the output unmodified and every later one is absent.
C3_FirstDuplicateKeptRestDropped ==
    PassDone =>
        \A n \in 1..Len(lines) :
            Contains(DupMarker, lines[n]) =>
                IF \A m \in 1..(n - 1) : ~Contains(DupMarker, lines[m])
                THEN \E p \in 1..Len(fixed_lines) : OutOf(n) = {p} /\ fixed_lines[p] = lines[n]
                ELSE OutOf(n) = {}

\* the block entered by iteration k is dropped as a unit: every line up to and
\* including the first one with the recorded close substring adds nothing to
\* the output, the block is left on exactly that line, and the line after it
\* is examined next
BlockDropped(k) ==
    LET o == log[k].at
        f == FirstCloseAfter(o, log[k].end)
    IN  /\ \A n \in o..f : OutOf(n) = {}
        /\ \A n \in (o + 1)..(f - 1) :
               \E m \in DOMAIN log :
                   log[m].at = n /\ log[m].taken = <<"in_block">> /\ log[m].skipping
        /\ \E m \in DOMAIN log :
               log[m].at = f /\ log[m].taken = <<"exit_block">> /\ ~log[m].skipping
        /\ f < Consumed => f + 1 \in Examined

BlockClosed(k) ==
    /\ Took(k, "enter_block")
    /\ ClosesAfter(log[k].at, log[k].end) # {}
    /\ FirstCloseAfter(log[k].at, log[k].end) <= Consumed

\* C4 as stated, on inputs without a header line: once a skip rule has
\* matched, the lines up to and including the first close-containing line are
\* dropped as a unit and the block is left on that line.
C4_BlockDropped ==
    (\A n \in 1..Len(lines) : ~Contains(HeaderOld, lines[n])) =>
        \A k \in DOMAIN log : BlockClosed(k) => BlockDropped(k)

\* C4 amended: the same on every input, for a block none of whose lines, from the opening
\* line to the first closing line, contains the duplicate-guard marker, the
\* header old substring or a type-removal pattern.
C4_UnpreemptedBlockDropped ==
    \A k \in DOMAIN log :
        ( /\ BlockClosed(k)
          /\ \A n \in log[k].at..FirstCloseAfter(log[k].at, log[k].end) :
                 ~Preempted(lines[n]) )
        => BlockDropped(k)

C4_Witness ==
    \E k \in DOMAIN log :
        /\ k >= 4
        /\ log[k].taken = <<"keep">>
        /\ log[k - 1].taken = <<"exit_block">>
        /\ log[k - 2].taken = <<"in_block">>
        /\ log[k - 3].taken = <<"enter_block">>

\* C5 as stated: no line containing a type-removal pattern is in the output
\* (a line that is in the output contains none).
C5_TypeLinesAbsent ==
    \A n \in 1..Consumed : KeptOf(n) # {} => ~HasTypePattern(lines[n])

\* C5 amended: no line that contains a type-removal pattern and does not
\* contain the duplicate-guard marker is in the output, inside or outside a
\* block, also right after a block-close line (a line without the marker that
\* is in the output contains no type-removal pattern).
C5_TypeLinesWithoutMarkerAbsent ==
    \A n \in 1..Consumed :
        (KeptOf(n) # {} /\ ~Contains(DupMarker, lines[n])) => ~HasTypePattern(lines[n])

C5_Witness ==
    \E k \in DOMAIN log :
        /\ k >= 2
        /\ log[k].taken = <<"type_drop">>
        /\ log[k - 1].taken = <<"exit_block">>
        /\ ~Contains(DupMarker, lines[log[k].at])

\* C6: when no input line is subject to any rule, the output of the pass is
\* the input (an output that differs from the input comes with a line that
\* is subject to a rule).
C6_IdentityWithoutMatches ==
    (PassDone /\ fixed_lines # lines) => \E n \in 1..Len(lines) : ~NoRule(lines[n])

C6_Witness ==
    /\ PassDone
    /\ Len(lines) >= 3
    /\ \A n \in 1..Len(lines) : NoRule(lines[n])
    /\ \E n \in 1..Len(lines) : lines[n] = LineCross
    /\ \E n \in 1..Len(lines) : lines[n] = LineClose

\* C7: every iteration goes through exactly one rule and adds at most one
\* line to the output.
C7_OneRuleOneAction ==
    \A k \in DOMAIN log :
        Len(log[k].taken) = 1 /\ log[k].after - log[k].before <= 1

\* the run can go on from the end of the loop to the success message
RunProceeds ==
    /\ (pc = "loop" /\ i >= Len(lines)) => ENABLED OpenWrite
    /\ pc = "writelines" => ENABLED WriteLines
    /\ pc = "print" => ENABLED PrintSuccess
    /\ pc = "done" => file = fixed_lines /\ stdout = <<SuccessMessage>>

Unterminated(k) ==
    Took(k, "enter_block") /\ ClosesAfter(log[k].at, log[k].end) = {}

\* C8 as stated: a block whose close substring never comes swallows the rest
\* of the input; no line after the opening line is in the output, the pass
\* ends inside the block and the run goes on to write and print.
C8_UnterminatedSwallowsAll ==
    PassDone =>
        \A k \in DOMAIN log :
            Unterminated(k) =>
                /\ skipping /\ current_section_end = log[k].end
                /\ \A n \in (log[k].at + 1)..Len(lines) : KeptOf(n) = {}
                /\ RunProceeds

\* C8 amended: the same, except that a line after the opening line is still
\* in the output when it is the line the duplicate guard keeps.
C8_UnterminatedSwallowsAllButGuarded ==
    PassDone =>
        \A k \in DOMAIN log :
            Unterminated(k) =>
                /\ skipping /\ current_section_end = log[k].end
                /\ \A n \in (log[k].at + 1)..Len(lines) :
                       KeptOf(n) # {} =>
                           /\ Contains(DupMarker, lines[n])
                           /\ \E m \in DOMAIN log :
                                  log[m].at = n /\ log[m].taken = <<"dup_keep">>
                /\ RunProceeds

C8_Witness ==
    /\ pc = "done"
    /\ skipping
    /\ \E k \in DOMAIN log :
           /\ Unterminated(k)
           /\ log[k].at + 2 <= Len(lines)
           /\ \E n \in (log[k].at + 1)..Len(lines) : lines[n] = LineCloseEnum
    /\ Len(fixed_lines) >= 1

\* C9: the output without the header-replacement lines is a subsequence of
\* the input lines the cursor has passed.
C9_KeptLinesAreSubsequence ==
    IsSubseq(SelectSeq(fixed_lines, NotHeaderNew), SubSeq(lines, 1, Consumed))

C9_Witness ==
    /\ Len(SelectSeq(fixed_lines, NotHeaderNew)) >= 2
    /\ Len(SelectSeq(fixed_lines, NotHeaderNew)) < Len(fixed_lines)
    /\ Len(SelectSeq(fixed_lines, NotHeaderNew)) < Consumed
    /\ fixed_lines[1] # fixed_lines[Len(fixed_lines)]

\* C10: a run ends either with the file read, overwritten with the filtered
\* lines and the success message printed, or in a fault with nothing printed;
\* the file is not touched before the loop has ended, and not at all when it
\* cannot be opened for reading.
C10_TwoOutcomes ==
    /\ pc = "done" =>
           lines = orig /\ i >= Len(lines) /\ file = fixed_lines
           /\ stdout = <<SuccessMessage>>
    /\ pc # "done" => stdout = <<>>
    /\ pc \in {"writelines", "print", "done", "fault_writelines"} =>
           lines = orig /\ i >= Len(lines)
    /\ file # orig => pc \in {"writelines", "print", "done", "fault_writelines"}
    /\ pc = "fault_open_read" => file = orig /\ log = <<>>
    /\ pc = "open_read" => ENABLED ReadLines
    /\ pc = "loop" => IF i < Len(lines) THEN ENABLED ProcessLine ELSE ENABLED OpenWrite
    /\ pc = "writelines" => ENABLED WriteLines
    /\ pc = "print" => ENABLED PrintSuccess

C10_Witness ==
    /\ pc = "done"
    /\ file # orig
    /\ Len(file) >= 2
    /\ Len(log) >= 3

----------------------------------------------------------------------------
\* block-skip state before iteration k
PrevSkipping(k) == IF k = 1 THEN FALSE ELSE log[k - 1].skipping

PrevEnd(k) == IF k = 1 THEN None ELSE log[k - 1].end

\* iteration k got as far as the block-skip machine
ReachedMachine(k) ==
    ~Took(k, "dup_drop") /\ ~Took(k, "dup_keep") /\ ~Took(k, "type_drop")

\* marker and block-open substring of skip rule j are both in the line
Opens(j, line) ==
    Contains(skip_sections[j][1], line) /\ Contains(skip_sections[j][2], line)

\* the skip rules the line opens
OpenedRules(line) == { j \in DOMAIN skip_sections : Opens(j, line) }

\* close substring of the first of them in list order
FirstOpenedClose(line) ==
    skip_sections[CHOOSE j \in DOMAIN skip_sections :
                      Opens(j, line) /\ \A m \in 1..(j - 1) : ~Opens(m, line)][3]

\* C11: a line that reaches the block-skip machine in Outside-Block enters a
\* block exactly when it has marker and block-open substring of one rule; it
\* is then not in the output and the close substring of the first such rule is
\* recorded; otherwise it is kept verbatim and the state stays Outside-Block.
C11_EntryOnlyOnSameRuleMatch ==
    \A k \in DOMAIN log :
        (ReachedMachine(k) /\ ~PrevSkipping(k)) =>
            LET line == lines[log[k].at]
            IN  IF OpensSection(line)
                THEN /\ log[k].skipping
                     /\ log[k].end = FirstOpenedClose(line)
                     /\ KeptOf(log[k].at) = {}
                ELSE /\ ~log[k].skipping
                     /\ log[k].end = None
                     /\ log[k].after > log[k].before
                     /\ fixed_lines[log[k].after] = line

C11_Witness ==
    /\ \E k \in DOMAIN log :
           /\ lines[log[k].at] = LineTwoRules
           /\ ~PrevSkipping(k)
           /\ log[k].end = <<");">>
    /\ \E k \in DOMAIN log :
           /\ lines[log[k].at] = LineCross
           /\ ~PrevSkipping(k)
           /\ log[k].taken = <<"keep">>

----------------------------------------------------------------------------
\* input positions of the lines with the duplicate-guard marker
DupLines == { n \in 1..Len(lines) : Contains(DupMarker, lines[n]) }

\* how many of them come before position n
DupsBefore(n) == Cardinality({ m \in DupLines : m < n })

NoHeaderLine == \A n \in 1..Len(lines) : ~Contains(HeaderOld, lines[n])

\* C12 as stated, on inputs without a header line: with three or more lines
\* containing the marker, the second is dropped and the third is kept.
C12_ThirdOccurrenceKept ==
    (PassDone /\ NoHeaderLine /\ Cardinality(DupLines) >= 3) =>
        \A n \in DupLines :
            /\ DupsBefore(n) = 1 => OutOf(n) = {}
            /\ DupsBefore(n) = 2 => KeptOf(n) # {}

\* C12 amended: the latch is never released; of the lines with the marker
\* that the loop examines, the first is kept and the second, the third and
\* every later one are dropped.
C12_OnlyFirstExaminedKept ==
    PassDone =>
        \A n \in DupLines \cap Examined :
            IF \A m \in DupLines \cap Examined : n <= m
            THEN \E p \in 1..Len(fixed_lines) : OutOf(n) = {p} /\ fixed_lines[p] = lines[n]
            ELSE OutOf(n) = {}

C12_Witness ==
    /\ PassDone
    /\ NoHeaderLine
    /\ Cardinality(DupLines \cap Examined) >= 3
    /\ Cardinality({ p \in 1..Len(fixed_lines) : Contains(DupMarker, fixed_lines[p]) }) = 1

----------------------------------------------------------------------------
\* the close substrings of the configured skip rules
CloseSubstrings == { skip_sections[j][3] : j \in DOMAIN skip_sections }

\* C13: the block-skip state starts as Outside-Block; current_section_end is
\* set exactly when skipping is true and is then the close substring of a
\* configured rule; the state changes only from Outside to Inside on a line
\* matching a skip rule, and from Inside to Outside on a line containing the
\* recorded close substring.
C13_BlockStateWellFormed ==
    /\ log = <<>> => ~skipping /\ current_section_end = None
    /\ log # <<>> =>
           skipping = log[Len(log)].skipping /\ current_section_end = log[Len(log)].end
    /\ skipping <=> current_section_end # None
    /\ skipping => current_section_end \in CloseSubstrings
    /\ \A k \in DOMAIN log :
           LET line == lines[log[k].at]
           IN  /\ log[k].skipping <=> log[k].end # None
               /\ (~PrevSkipping(k) /\ log[k].skipping) =>
                      \E j \in OpenedRules(line) : log[k].end = skip_sections[j][3]
               /\ (PrevSkipping(k) /\ ~log[k].skipping) => Contains(PrevEnd(k), line)
               /\ (PrevSkipping(k) /\ log[k].skipping) => log[k].end = PrevEnd(k)

C13_Witness ==
    /\ skipping
    /\ current_section_end = <<"}", ");">>
    /\ \E k \in DOMAIN log :
           PrevSkipping(k) /\ ~log[k].skipping /\ PrevEnd(k) = <<");">>

----------------------------------------------------------------------------
\* iteration k is in Outside-Block at the block-skip machine with a line that
\* opens a rule and holds that rule's close substring as well
OneLineOpening(k) ==
    LET line == lines[log[k].at]
    IN  /\ ReachedMachine(k)
        /\ ~PrevSkipping(k)
        /\ OpensSection(line)
        /\ Contains(FirstOpenedClose(line), line)

\* the line after the opening line of iteration k is examined inside the block
NextLineInBlock(k) ==
    log[k].at < Consumed =>
        \E m \in DOMAIN log : log[m].at = log[k].at + 1 /\ PrevSkipping(m)

\* C14 as stated, on inputs without a header line: an opening line that holds
\* its own close substring still enters the block, the next line is examined
\* inside the block, and the lines are dropped up to and including the next
\* later line with the close substring.
C14_OneLineOpeningStaysOpen ==
    NoHeaderLine =>
        \A k \in DOMAIN log :
            OneLineOpening(k) =>
                /\ log[k].skipping
                /\ log[k].end = FirstOpenedClose(lines[log[k].at])
                /\ NextLineInBlock(k)
                /\ BlockClosed(k) => BlockDropped(k)

\* C14 amended: the same on every input; the lines up to the next later
\* close-containing line are dropped when none of them, from the opening line
\* on, contains the duplicate-guard marker, the header old substring or a
\* type-removal pattern.
C14_OneLineOpeningStaysOpenUnpreempted ==
    \A k \in DOMAIN log :
        OneLineOpening(k) =>
            /\ log[k].skipping
            /\ log[k].end = FirstOpenedClose(lines[log[k].at])
            /\ ~Preempted(lines[log[k].at]) => NextLineInBlock(k)
            /\ ( /\ BlockClosed(k)
                 /\ \A n \in log[k].at..FirstCloseAfter(log[k].at, log[k].end) :
                        ~Preempted(lines[n]) )
               => BlockDropped(k)

C14_Witness ==
    \E k \in DOMAIN log :
        /\ k + 3 <= Len(log)
        /\ OneLineOpening(k)
        /\ log[k + 1].taken = <<"in_block">>
        /\ log[k + 2].taken = <<"exit_block">>
        /\ log[k + 3].taken = <<"keep">>

----------------------------------------------------------------------------
\* C15: every iteration moves the cursor forward by at least one line, so the
\* loop makes at most len(lines) iterations, each on a line of the input, and
\* examines no line twice.
C15_CursorAlwaysAdvances ==
    /\ Len(log) <= Len(lines)
    /\ log = <<>> => i = 0
    /\ log # <<>> => i >= log[Len(log)].at
    /\ \A k \in DOMAIN log :
           /\ log[k].at \in 1..Len(lines)
           /\ k > 1 => log[k].at > log[k - 1].at

C15_Witness ==
    /\ PassDone
    /\ Len(log) >= 3
    /\ \E k \in DOMAIN log : Took(k, "header")
    /\ \E k \in DOMAIN log : Took(k, "enter_block")
    /\ \E k \in DOMAIN log : Took(k, "in_block")

----------------------------------------------------------------------------
\* output positions of the lines with the duplicate-guard marker
DupOutputs == { p \in 1..Len(fixed_lines) : Contains(DupMarker, fixed_lines[p]) }

\* C16 as stated: for an input without a header line, a second pass over the
\* output of the pass returns it unchanged; the output holds at most one line
\* with the duplicate-guard marker, no line with a type-removal pattern, and
\* no line other than that one that matches a skip rule.
C16_IdempotentNoTypeLine ==
    (PassDone /\ NoHeaderLine) =>
        /\ FilterLines(fixed_lines) = fixed_lines
        /\ Cardinality(DupOutputs) <= 1
        /\ \A p \in 1..Len(fixed_lines) : ~HasTypePattern(fixed_lines[p])
        /\ \A p \in 1..Len(fixed_lines) :
               p \notin DupOutputs => ~OpensSection(fixed_lines[p])

\* C16 amended: the same, with no line other than the one duplicate-marker
\* line holding a type-removal pattern.
C16_IdempotentWithoutHeader ==
    (PassDone /\ NoHeaderLine) =>
        /\ FilterLines(fixed_lines) = fixed_lines
        /\ Cardinality(DupOutputs) <= 1
        /\ \A p \in 1..Len(fixed_lines) :
               p \notin DupOutputs =>
                   ~HasTypePattern(fixed_lines[p]) /\ ~OpensSection(fixed_lines[p])

C16_Witness ==
    /\ PassDone
    /\ NoHeaderLine
    /\ Len(fixed_lines) >= 2
    /\ Len(fixed_lines) < Len(lines)
    /\ Cardinality(DupLines) >= 2
    /\ \E p \in DupOutputs : HasTypePattern(fixed_lines[p])
    /\ FilterLines(lines) = fixed_lines

====
